---- MODULE Spec2Model ----
(***************************************************************************)
(* FastaUploader (fasta_uploader.py): the batch lifecycle.                 *)
(*                                                                         *)
(* A run of the program loads the source fasta and metadata files, splits  *)
(* them into batch file pairs  <output>.<count>.<state>.fasta / .tsv,      *)
(* uploads every pair whose state is 'queued', renames an accepted pair to *)
(* its submissionId, and then polls every submitted pair and moves the     *)
(* records reported ERROR into the queued pair of the same count.          *)
(*                                                                         *)
(* Abstractions.  A fasta record is its identifier (record.id) and a       *)
(* metadata row is its value in the key column; identifiers are opaque     *)
(* values compared by equality.  A file is the sequence of its records or  *)
(* rows, in file order.  The remote issues a distinct submissionId for     *)
(* every submission it accepts.  Every upload response and every status    *)
(* response is chosen by the remote without restriction.                   *)
(***************************************************************************)
EXTENDS Integers, Sequences, FiniteSets, TLC

\* Bounds of the model.
MaxRecords == 2     \* identifiers are 1..MaxRecords; source files hold at most MaxRecords entries
MaxSubmissions == 2 \* submitted pairs in the namespace at a time
MaxN == 8           \* SpecPartition: number of records 0..MaxN
MaxB == 6           \* SpecPartition: options.batch 1..MaxB

\* The state token 'queued' of a file name; a submissionId is a positive number.
QUEUED == 0
\* options.batch_number when -n is not given (default False).
NoNumber == -1

VARIABLES
  fasta_file,     \* content of options.fasta_file: sequence of record ids
  metadata_file,  \* content of options.metadata_file: sequence of key-column values
  fasta,          \* batch fasta files: <<count, state>> -> sequence of record ids
  tsv,            \* batch tsv files:   <<count, state>> -> sequence of key-column values
  options,        \* command line of the running invocation
  pc,             \* position of the running invocation in the main program
  batches,        \* the files the current loop has still to visit
  exit_code,      \* exit status of the last finished invocation
  generated,      \* batch_fasta has run at least once
  last            \* the step just taken (what it did, to which file, on which response)

vars == <<fasta_file, metadata_file, fasta, tsv, options, pc, batches,
          exit_code, generated, last>>

Ids == 1..MaxRecords

Range(s) == {s[i] : i \in 1..Len(s)}

SeqsUpTo(S, n) == UNION {[1..m -> S] : m \in 0..n}

NoFiles == [k \in {} |-> <<>>]

\* open(name, 'w') followed by a write of content.
Put(files, name, content) ==
  [k \in DOMAIN files \cup {name} |-> IF k = name THEN content ELSE files[k]]

\* A copy under the new name, the old name kept.
Rename_copy(files, old, new) ==
  [k \in DOMAIN files \cup {new} |-> IF k = new THEN files[old] ELSE files[k]]

\* os.rename(old, new)
Rename(files, old, new) ==
  [k \in (DOMAIN files \ {old}) \cup {new} |-> IF k = new THEN files[old] ELSE files[k]]

\* sorted(fasta_data, key=lambda x : x.id), a stable sort: the ids below
\* the middle entry's, sorted, then the entries with its id in the order
\* they have, then the ids above it, sorted.
RECURSIVE SortById(_)
SortById(s) ==
  IF Len(s) <= 1 THEN s
  ELSE LET pivot == s[(Len(s) + 1) \div 2]
       IN SortById(SelectSeq(s, LAMBDA x : x < pivot))
          \o SelectSeq(s, LAMBDA x : x = pivot)
          \o SortById(SelectSeq(s, LAMBDA x : x > pivot))

get_fasta_data(file) == SortById(file)

\* metadata.sort_values(by = key_field) returns a sorted copy, which is dropped.
get_metadata(file) == file

\* np.array_split(ary, sections): int(sections) sub-arrays, the first
\* len % sections of them one longer than the others.
div_points(Ntotal, Nsections, i) ==
  LET Neach_section == Ntotal \div Nsections
      extras == Ntotal % Nsections
  IN i * Neach_section + (IF i < extras THEN i ELSE extras)

array_split(ary, sections) ==
  [i \in 1..sections |->
     SubSeq(ary, div_points(Len(ary), sections, i - 1) + 1,
                 div_points(Len(ary), sections, i))]

\* The quotient rounded up.
Splits_ceil(n, batch) == IF n = 0 THEN 1 ELSE (n + batch - 1) \div batch

\* splits = len(fasta_data)/int(options.batch); if splits < 1: splits = 1;
\* array_split truncates the quotient.
Splits(n, batch) == IF n \div batch < 1 THEN 1 ELSE n \div batch

\* write_metadata without the append to an existing queued file.
write_metadata_overwrite(t, sequences, metadata, count, id) ==
  Put(t, <<count, id>>, SelectSeq(metadata, LAMBDA row : row \in Range(sequences)))

write_metadata(t, sequences, metadata, count, id) ==
  LET id_index == Range(sequences)
      metabatch == SelectSeq(metadata, LAMBDA row : row \in id_index)
      file_name == <<count, id>>
  IN IF file_name \in DOMAIN t /\ id = QUEUED
     THEN [t EXCEPT ![file_name] = @ \o metabatch]
     ELSE Put(t, file_name, metabatch)

\* The loop of batch_fasta over enumerate(np.array_split(...)), from count on.
RECURSIVE batch_fasta_loop(_, _, _, _, _)
batch_fasta_loop(f, t, parts, metadata, count) ==
  IF count >= Len(parts) THEN <<f, t>>
  ELSE batch_fasta_loop(Put(f, <<count, QUEUED>>, parts[count + 1]),
                        write_metadata(t, parts[count + 1], metadata, count, QUEUED),
                        parts, metadata, count + 1)

batch_fasta(f, t, fasta_data, metadata, batch) ==
  batch_fasta_loop(f, t, array_split(fasta_data, Splits(Len(fasta_data), batch)),
                   metadata, 0)

----------------------------------------------------------------------------
\* Command lines.  key_field: options.key_field is a column of the metadata
\* file.  An option the run never reads (-n without -a or -u, any option but
\* -k and -r when the key is no column) is left at its default.
Options ==
  {o \in [batch : 1..MaxRecords, reset : BOOLEAN, api : {"", "VirusSeq_Portal"},
           api_token : BOOLEAN, batch_number : {NoNumber} \cup (0..(MaxRecords - 1)),
           key_field : BOOLEAN] :
     /\ o.api = "" => ~o.api_token
     /\ ~o.api_token => o.batch_number = NoNumber
     /\ ~o.key_field => o.api = "" /\ o.batch = 1}

NoOptions ==
  [batch |-> 1, reset |-> FALSE, api |-> "", api_token |-> FALSE,
   batch_number |-> NoNumber, key_field |-> FALSE]

NoResponse ==
  [raised |-> FALSE, status_code |-> 0, json |-> FALSE, submissionId |-> FALSE,
   status |-> "", message |-> "", errors |-> {}]

Step(op, count, state, outcome, response) ==
  [op |-> op, count |-> count, state |-> state, outcome |-> outcome,
   response |-> response]

\* What POST <base>/submissions can answer.  raised: requests.post raised;
\* json: the body is a JSON object (with status, message and errorInfo when
\* it reports an error).
UploadResponses ==
  {[NoResponse EXCEPT !.raised = TRUE]}
  \cup {[NoResponse EXCEPT !.status_code = 200, !.json = j, !.submissionId = j /\ h] :
          j \in BOOLEAN, h \in BOOLEAN}
  \cup {[NoResponse EXCEPT !.status_code = c] : c \in {400, 401, 404, 500, 503}}
  \cup {[NoResponse EXCEPT !.status_code = 400, !.json = TRUE,
                           !.status = "BAD_REQUEST", !.message = m] :
          m \in {"Headers are incorrect!", "Found records with invalid fields", "Denied"}}
  \cup {[NoResponse EXCEPT !.status_code = 400, !.json = TRUE,
                           !.status = s, !.message = "Denied"] :
          s \in {"FORBIDDEN", "CONFLICT"}}
  \cup {[NoResponse EXCEPT !.status_code = c, !.json = TRUE,
                           !.status = "INTERNAL_SERVER_ERROR", !.message = "Denied"] :
          c \in {500, 503}}

\* What GET <base>/uploads can answer: errors is the set of submitterSampleIds
\* the body reports with status ERROR (every other record is QUEUED or has
\* another status).
StatusResponses ==
  {[NoResponse EXCEPT !.raised = TRUE]}
  \cup {[NoResponse EXCEPT !.status_code = 503]}
  \cup {[NoResponse EXCEPT !.status_code = 200, !.json = TRUE, !.errors = E] :
          E \in SUBSET Ids}

\* The loop body without its sys.exit calls: whatever is not accepted is
\* logged and the loop goes on.
api_virusseq_job_outcome_lenient(r) ==
  IF r.raised THEN "exit"
  ELSE IF r.status_code = 200 /\ r.json /\ r.submissionId THEN "submitted"
  ELSE "continue"

\* The loop body that gives up the run on every answer but an acceptance.
api_virusseq_job_outcome_strict(r) ==
  IF ~r.raised /\ r.status_code = 200 /\ r.json /\ r.submissionId THEN "submitted"
  ELSE "exit"

\* api_virusseq_job, the body of the loop after the request: what becomes of
\* the batch and of the run.
\*   "submitted": both files renamed, next batch;  "continue": next batch;
\*   "exit": sys.exit(1);  "crash": an exception nobody catches.
api_virusseq_job_outcome(r) ==
  IF r.raised THEN "exit"
  ELSE IF r.status_code = 200
    THEN IF ~r.json THEN "crash"
         ELSE IF r.submissionId THEN "submitted" ELSE "exit"
  ELSE IF r.status_code = 401 THEN "exit"
  ELSE IF r.status_code = 404 THEN "exit"
  ELSE IF ~r.json THEN "crash"
  ELSE IF r.status_code = 400 /\ r.status = "BAD_REQUEST"
          /\ r.message = "Headers are incorrect!" THEN "exit"
  ELSE IF r.status_code = 400 /\ r.status = "BAD_REQUEST"
          /\ r.message = "Found records with invalid fields" THEN "continue"
  ELSE IF r.status_code = 400 /\ r.status = "FORBIDDEN" THEN "exit"
  ELSE IF r.status_code = 500 THEN "continue"
  ELSE "continue"

\* api_virusseq_status: the error_keys it appends.
api_virusseq_status(r) ==
  IF r.status_code = 200 THEN r.errors ELSE {}

----------------------------------------------------------------------------
Init ==
  /\ fasta_file \in SeqsUpTo(Ids, MaxRecords)
  /\ metadata_file \in SeqsUpTo(Ids, MaxRecords)
  /\ fasta = NoFiles
  /\ tsv = NoFiles
  /\ options = NoOptions
  /\ pc = "idle"
  /\ batches = {}
  /\ exit_code = 0
  /\ generated = FALSE
  /\ last = Step("init", 0, QUEUED, "", NoResponse)

\* The process ends: nothing of it is left but its exit status.
Exit(code) ==
  /\ pc' = "idle"
  /\ exit_code' = code
  /\ batches' = {}
  /\ options' = NoOptions

\* The start of a program that does not look for the key column.
Main_Load_unchecked(opts) ==
  /\ pc = "idle"
  /\ UNCHANGED <<fasta_file, metadata_file, fasta, tsv, generated>>
  /\ pc' = "reset"
  /\ options' = opts
  /\ UNCHANGED <<batches, exit_code>>
  /\ last' = Step("load", 0, QUEUED, "", NoResponse)

\* The program starts: init_parser, get_fasta_data, get_metadata.
Main_Load(opts) ==
  /\ pc = "idle"
  /\ UNCHANGED <<fasta_file, metadata_file, fasta, tsv, generated>>
  /\ IF ~opts.key_field
     THEN /\ Exit(1)
          /\ last' = Step("load", 0, QUEUED, "exit", NoResponse)
     ELSE /\ pc' = "reset"
          /\ options' = opts
          /\ UNCHANGED <<batches, exit_code>>
          /\ last' = Step("load", 0, QUEUED, "", NoResponse)

\* The reset that removes the queued files only.
ResetGlob_queued(f) == {k \in DOMAIN f : k[2] = QUEUED}

\* glob(output_file + '.*')
ResetGlob(f) == DOMAIN f

\* os.remove(filename) for every filename of names.
Remove(files, names) == [k \in DOMAIN files \ names |-> files[k]]

\* if options.reset: remove every file of glob(output_file + '.*').
Main_Reset ==
  /\ pc = "reset"
  /\ pc' = "step1"
  /\ fasta' = IF options.reset THEN Remove(fasta, ResetGlob(fasta)) ELSE fasta
  /\ tsv' = IF options.reset THEN Remove(tsv, ResetGlob(tsv)) ELSE tsv
  /\ last' = Step("reset", 0, QUEUED,
                  IF options.reset /\ DOMAIN fasta # {} THEN "removed" ELSE "",
                  NoResponse)
  /\ UNCHANGED <<fasta_file, metadata_file, options, batches, exit_code,
                 generated>>

\* The step 1 test that looks for a queued file of count 0 only.
Step1Glob_queued(f) == {k \in DOMAIN f : k[1] = 0 /\ k[2] = QUEUED}

\* glob(output_file + '.0.*.fasta')
Step1Glob(f) == {k \in DOMAIN f : k[1] = 0}

\* STEP 1: generate the batch files, unless a fasta file of count 0 exists.
Main_Step1 ==
  /\ pc = "step1"
  /\ pc' = "step2"
  /\ LET skip == Step1Glob(fasta) # {}
         fasta_data == get_fasta_data(fasta_file)
         new == batch_fasta(fasta, tsv, fasta_data, get_metadata(metadata_file),
                            options.batch)
     IN /\ fasta' = IF skip THEN fasta ELSE new[1]
        /\ tsv' = IF skip THEN tsv ELSE new[2]
        /\ fasta_file' = IF skip THEN fasta_file ELSE fasta_data
        /\ generated' = IF skip THEN generated ELSE TRUE
        /\ last' = Step(IF skip THEN "skip" ELSE "generate", 0, QUEUED,
                        IF last.outcome = "removed" THEN "after removal" ELSE "",
                        NoResponse)
  /\ UNCHANGED <<metadata_file, options, batches, exit_code>>


\* result['submissionId']: an identifier the remote has given to no pair of
\* the namespace (the least such number stands for all of them).
NewSubmissionId(f) ==
  CHOOSE n \in 1..(Cardinality(DOMAIN f) + 1) :
    /\ \A k \in DOMAIN f : k[2] # n
    /\ \A m \in 1..(n - 1) : \E k \in DOMAIN f : k[2] = m

\* The glob that takes every fasta file of the namespace.
QueuedGlob_all(f) == DOMAIN f

\* glob(output_file + '.*.queued.fasta')
QueuedGlob(f) == {k \in DOMAIN f : k[2] = QUEUED}

\* The filter that lets every count through.
Selected_all(count) == TRUE

\* if (not options.batch_number or count == options.batch_number)
Selected(count) == options.batch_number = NoNumber \/ count = options.batch_number

\* STEP 2: api_batch_job up to the loop of api_virusseq_job.
api_batch_job ==
  /\ pc = "step2"
  /\ UNCHANGED <<fasta_file, metadata_file, fasta, tsv, generated>>
  /\ IF options.api = ""
     THEN /\ Exit(0)
          /\ last' = Step("job", 0, QUEUED, "done", NoResponse)
     ELSE IF ~options.api_token
     THEN /\ Exit(1)
          /\ last' = Step("job", 0, QUEUED, "exit", NoResponse)
     ELSE /\ batches' = QueuedGlob(fasta)
          /\ pc' = IF QueuedGlob(fasta) = {} THEN "step3" ELSE "upload"
          /\ last' = Step("job", 0, QUEUED, "", NoResponse)
          /\ UNCHANGED <<options, exit_code>>

\* One turn of the loop of api_virusseq_job: the upload of filename, answered by r.
\* glob returns the files in no particular order.
api_virusseq_job(filename, r) ==
  /\ pc = "upload"
  /\ filename \in batches
  /\ UNCHANGED <<fasta_file, metadata_file, generated>>
  /\ LET count == filename[1]
         rest == batches \ {filename}
         outcome == IF Selected(count) THEN api_virusseq_job_outcome(r) ELSE "skipped"
         submission_id == NewSubmissionId(fasta)
     IN /\ r = NoResponse <=> ~Selected(count)
        /\ outcome = "submitted" => submission_id <= MaxSubmissions
        /\ last' = Step("upload", count,
                        IF outcome = "submitted" THEN submission_id ELSE QUEUED,
                        outcome, r)
        /\ IF outcome \in {"exit", "crash"}
           THEN /\ Exit(1)
                /\ UNCHANGED <<fasta, tsv>>
           ELSE /\ batches' = rest
                /\ pc' = IF rest = {} THEN "step3" ELSE "upload"
                /\ UNCHANGED <<options, exit_code>>
                /\ IF outcome = "submitted"
                   THEN /\ fasta' = Rename(fasta, filename, <<count, submission_id>>)
                        /\ tsv' = Rename(tsv, filename, <<count, submission_id>>)
                   ELSE UNCHANGED <<fasta, tsv>>

\* The status loop started while the upload loop has batches left.
api_batch_status_glob_early ==
  /\ pc \in {"step3", "upload"}
  /\ batches' = DOMAIN fasta
  /\ pc' = "status"
  /\ last' = Step("status_glob", 0, QUEUED, "", NoResponse)
  /\ UNCHANGED <<fasta_file, metadata_file, fasta, tsv, options, exit_code,
                 generated>>

\* STEP 3: api_batch_status up to its loop: glob(output_file + '.*.*.fasta'),
\* sorted on count.
api_batch_status_glob ==
  /\ pc = "step3"
  /\ batches' = DOMAIN fasta
  /\ pc' = "status"
  /\ last' = Step("status_glob", 0, QUEUED, "", NoResponse)
  /\ UNCHANGED <<fasta_file, metadata_file, fasta, tsv, options, exit_code,
                 generated>>

\* The error filter stopping at the first record it finds.
ErrorSequences_first(fasta_data, error_keys) ==
  LET found == SelectSeq(fasta_data, LAMBDA x : x \in error_keys)
  IN IF found = <<>> THEN found ELSE <<Head(found)>>

\* list(filter(lambda x: x.id in error_keys, fasta_data))
ErrorSequences(fasta_data, error_keys) ==
  SelectSeq(fasta_data, LAMBDA x : x \in error_keys)

\* The job file written back whole, errors included.
OtherSequences_all(fasta_data, error_keys) == fasta_data

\* list(filter(lambda x: not x.id in error_keys, fasta_data))
OtherSequences(fasta_data, error_keys) ==
  SelectSeq(fasta_data, LAMBDA x : x \notin error_keys)

\* The queued fasta file always opened 'w'.
AppendFasta_overwrite(f, name, sequences) == Put(f, name, sequences)

\* open(output_fasta_file, 'a' if it exists else 'w') and the write of sequences.
AppendFasta(f, name, sequences) ==
  IF name \in DOMAIN f THEN [f EXCEPT ![name] = @ \o sequences]
  ELSE Put(f, name, sequences)

\* The reconciliation that removes a job pair left without records.
api_batch_status_write_drop(f, t, filename, error_keys) ==
  LET count == filename[1]
      fasta_data == get_fasta_data(f[filename])
      metadata == get_metadata(t[filename])
      errors == ErrorSequences(fasta_data, error_keys)
      others == OtherSequences(fasta_data, error_keys)
      f1 == AppendFasta(f, <<count, QUEUED>>, errors)
      t1 == write_metadata(t, errors, metadata, count, QUEUED)
  IN IF others = <<>>
     THEN <<Remove(f1, {filename}), Remove(t1, {filename})>>
     ELSE <<Put(f1, filename, others),
            write_metadata(t1, others, metadata, count, filename[2])>>

\* api_batch_status, if len(error_keys) > 0: the errors of filename go to the
\* queued pair of its count, the rest is written back to filename.
api_batch_status_write(f, t, filename, error_keys) ==
  LET count == filename[1]
      submission_id == filename[2]
      fasta_data == get_fasta_data(f[filename])
      metadata == get_metadata(t[filename])
      errors == ErrorSequences(fasta_data, error_keys)
      others == OtherSequences(fasta_data, error_keys)
      f1 == AppendFasta(f, <<count, QUEUED>>, errors)
      t1 == write_metadata(t, errors, metadata, count, QUEUED)
  IN <<Put(f1, filename, others),
       write_metadata(t1, others, metadata, count, submission_id)>>

\* sorted(batches, key = count): the next file is one of the lowest count.
NextInOrder(filename) == \A k \in batches : filename[1] <= k[1]

\* The turn that writes the files of every batch whose poll is answered 200,
\* errors or not.
api_batch_status_always(filename, r) ==
  /\ pc = "status"
  /\ filename \in batches
  /\ NextInOrder(filename)
  /\ UNCHANGED <<fasta_file, metadata_file, generated>>
  /\ LET polled == Selected(filename[1]) /\ filename[2] # QUEUED
         error_keys == IF polled THEN api_virusseq_status(r) ELSE {}
         rest == batches \ {filename}
         new == api_batch_status_write(fasta, tsv, filename, error_keys)
         outcome == IF ~polled THEN "skipped"
                    ELSE IF r.raised THEN "crash"
                    ELSE IF r.status_code # 200 THEN "unavailable"
                    ELSE "moved"
     IN /\ r = NoResponse <=> ~polled
        /\ last' = Step("status", filename[1], filename[2], outcome, NoResponse)
        /\ fasta' = IF outcome = "moved" THEN new[1] ELSE fasta
        /\ tsv' = IF outcome = "moved" THEN new[2] ELSE tsv
        /\ IF outcome = "crash" THEN Exit(1)
           ELSE IF rest = {} THEN Exit(0)
           ELSE /\ batches' = rest
                /\ UNCHANGED <<pc, options, exit_code>>

\* One turn of the loop of api_batch_status on filename, its poll answered by r.
api_batch_status(filename, r) ==
  /\ pc = "status"
  /\ filename \in batches
  /\ NextInOrder(filename)
  /\ UNCHANGED <<fasta_file, metadata_file, generated>>
  /\ LET polled == Selected(filename[1]) /\ filename[2] # QUEUED
         error_keys == IF polled THEN api_virusseq_status(r) ELSE {}
         rest == batches \ {filename}
         new == api_batch_status_write(fasta, tsv, filename, error_keys)
         outcome == IF ~polled THEN "skipped"
                    ELSE IF r.raised THEN "crash"
                    ELSE IF r.status_code # 200 THEN "unavailable"
                    ELSE IF error_keys = {} THEN "clean" ELSE "moved"
     IN /\ r = NoResponse <=> ~polled
        /\ last' = Step("status", filename[1], filename[2], outcome, NoResponse)
        /\ fasta' = IF outcome = "moved" THEN new[1] ELSE fasta
        /\ tsv' = IF outcome = "moved" THEN new[2] ELSE tsv
        /\ IF outcome = "crash" THEN Exit(1)
           ELSE IF rest = {} THEN Exit(0)
           ELSE /\ batches' = rest
                /\ UNCHANGED <<pc, options, exit_code>>

\* The whole loop of api_batch_status as a function of the files it finds:
\* order is the sorted list of the files of its glob, answers[filename] the
\* answer to the poll of filename.
RECURSIVE api_batch_status_loop(_, _, _, _)
api_batch_status_loop(f, t, order, answers) ==
  IF order = <<>> THEN <<f, t>>
  ELSE LET filename == Head(order)
           polled == Selected(filename[1]) /\ filename[2] # QUEUED
           error_keys == IF polled THEN api_virusseq_status(answers[filename]) ELSE {}
           new == IF error_keys # {}
                  THEN api_batch_status_write(f, t, filename, error_keys)
                  ELSE <<f, t>>
       IN api_batch_status_loop(new[1], new[2], Tail(order), answers)

\* sorted(batches, key = count): the lists of the files of names in count
\* order (files of the same count in any order).
SortedGlobs(names) ==
  {order \in [1..Cardinality(names) -> names] :
     /\ \A i, j \in DOMAIN order : i < j => order[i] # order[j]
     /\ \A i, j \in DOMAIN order : i < j => order[i][1] <= order[j][1]}

Next ==
  \/ \E opts \in Options : Main_Load(opts)
  \/ Main_Reset
  \/ Main_Step1
  \/ api_batch_job
  \/ \E filename \in batches, r \in UploadResponses \cup {NoResponse} :
        api_virusseq_job(filename, r)
  \/ api_batch_status_glob
  \/ \E filename \in batches, r \in StatusResponses \cup {NoResponse} :
        api_batch_status(filename, r)

Spec == Init /\ [][Next]_vars

----------------------------------------------------------------------------
\* The partitioner alone, from step 1 of a first run, on n records with ids
\* 1..n, a metadata row for each, and batch size b.
Records(n) == [i \in 1..n |-> i]

InitPartition ==
  /\ \E nb \in ((0..MaxN) \X (1..MaxB)) \cup {<<2500, 1000>>, <<500, 1000>>} :
        /\ fasta_file = Records(nb[1])
        /\ metadata_file = Records(nb[1])
        /\ options = [NoOptions EXCEPT !.batch = nb[2], !.key_field = TRUE]
  /\ fasta = NoFiles
  /\ tsv = NoFiles
  /\ pc = "step1"
  /\ batches = {}
  /\ exit_code = 0
  /\ generated = FALSE
  /\ last = Step("reset", 0, QUEUED, "", NoResponse)

NextPartition == Main_Step1

SpecPartition == InitPartition /\ [][NextPartition]_vars

----------------------------------------------------------------------------
\* The program with its file operations as separate steps, and the process
\* killed between any two of them.  A step is a file written and closed (a
\* with block, or a to_csv outside one) or a rename.  The locals of the loop
\* turn in progress (count, submission_id, error_keys) are those of the step
\* recorded in last.

\* Exit status of a process ended by SIGKILL.
KILLED == 137

\* Kills are counted out by the size of the files they have let grow.
MaxFileLen == 2

\* Runs without -r and without -n.
KillOptions ==
  {o \in Options : o.key_field /\ ~o.reset /\ o.batch_number = NoNumber}

\* The batch files of lowest count among those the loop has still to write.
NextCount == CHOOSE c \in {k[1] : k \in batches} : \A k \in batches : c <= k[1]

\* np.array_split(fasta_data, splits) of the run in progress.
Parts == array_split(fasta_file, Splits(Len(fasta_file), options.batch))

\* STEP 1 up to the loop of batch_fasta: the test for a fasta file of count
\* 0, and the rewrite of the sorted source files.
batch_fasta_begin ==
  /\ pc = "step1"
  /\ UNCHANGED <<metadata_file, fasta, tsv, options, exit_code, generated>>
  /\ IF Step1Glob(fasta) # {}
     THEN /\ pc' = "step2"
          /\ last' = Step("skip", 0, QUEUED, "", NoResponse)
          /\ UNCHANGED <<fasta_file, batches>>
     ELSE /\ fasta_file' = get_fasta_data(fasta_file)
          /\ batches' = {<<count, QUEUED>> :
                           count \in 0..(Splits(Len(fasta_file), options.batch) - 1)}
          /\ pc' = "write_metadata"
          /\ last' = Step("generate", 0, QUEUED, "", NoResponse)

\* The loop of batch_fasta: write_metadata(sequences, metadata, count).
batch_fasta_write_metadata ==
  /\ pc = "write_metadata"
  /\ tsv' = write_metadata(tsv, Parts[NextCount + 1], get_metadata(metadata_file),
                           NextCount, QUEUED)
  /\ pc' = "write_fasta"
  /\ last' = Step("write_metadata", NextCount, QUEUED, "", NoResponse)
  /\ UNCHANGED <<fasta_file, metadata_file, fasta, options, batches, exit_code,
                 generated>>

\* The loop of batch_fasta: the write of <count>.queued.fasta, the end of a turn.
batch_fasta_write_fasta ==
  /\ pc = "write_fasta"
  /\ fasta' = Put(fasta, <<NextCount, QUEUED>>, Parts[NextCount + 1])
  /\ batches' = batches \ {<<NextCount, QUEUED>>}
  /\ pc' = IF batches' = {} THEN "step2" ELSE "write_metadata"
  /\ generated' = IF batches' = {} THEN TRUE ELSE generated
  /\ last' = Step("write_fasta", NextCount, QUEUED, "", NoResponse)
  /\ UNCHANGED <<fasta_file, metadata_file, tsv, options, exit_code>>

\* One turn of the loop of api_virusseq_job up to the first os.rename: both
\* files are opened, the request is answered by r, the fasta file of an
\* accepted batch is renamed.
api_virusseq_job_post(filename, r) ==
  /\ pc = "upload"
  /\ filename \in batches
  /\ UNCHANGED <<fasta_file, metadata_file, tsv, generated>>
  /\ LET count == filename[1]
         rest == batches \ {filename}
         opened == Selected(count) /\ filename \in DOMAIN tsv
         outcome == IF ~Selected(count) THEN "skipped"
                    ELSE IF ~opened THEN "crash"
                    ELSE api_virusseq_job_outcome(r)
         submission_id == NewSubmissionId(fasta)
     IN /\ r = NoResponse <=> ~opened
        /\ outcome = "submitted" => submission_id <= MaxSubmissions
        /\ last' = Step("upload", count,
                        IF outcome = "submitted" THEN submission_id ELSE QUEUED,
                        outcome, NoResponse)
        /\ IF outcome \in {"exit", "crash"}
           THEN /\ Exit(1)
                /\ UNCHANGED fasta
           ELSE /\ batches' = rest
                /\ UNCHANGED <<options, exit_code>>
                /\ IF outcome = "submitted"
                   THEN /\ fasta' = Rename(fasta, filename, <<count, submission_id>>)
                        /\ pc' = "rename_tsv"
                   ELSE /\ UNCHANGED fasta
                        /\ pc' = IF rest = {} THEN "step3" ELSE "upload"

\* The second os.rename of the turn, of the tsv file, and the continue.
api_virusseq_job_rename_tsv ==
  /\ pc = "rename_tsv"
  /\ tsv' = Rename(tsv, <<last.count, QUEUED>>, <<last.count, last.state>>)
  /\ pc' = IF batches = {} THEN "step3" ELSE "upload"
  /\ last' = Step("rename_tsv", last.count, last.state, "", NoResponse)
  /\ UNCHANGED <<fasta_file, metadata_file, fasta, options, batches, exit_code,
                 generated>>

\* The end of a turn of the loop of api_batch_status.
api_batch_status_continue ==
  IF batches' = {} THEN Exit(0)
  ELSE /\ pc' = "status"
       /\ UNCHANGED <<options, exit_code>>

\* One turn of the loop of api_batch_status up to its first write: the poll of
\* filename, answered by r, and the load of both files when errors are reported.
api_batch_status_poll(filename, r) ==
  /\ pc = "status"
  /\ filename \in batches
  /\ NextInOrder(filename)
  /\ UNCHANGED <<fasta_file, metadata_file, fasta, tsv, generated>>
  /\ LET polled == Selected(filename[1]) /\ filename[2] # QUEUED
         error_keys == IF polled THEN api_virusseq_status(r) ELSE {}
         outcome == IF ~polled THEN "skipped"
                    ELSE IF r.raised THEN "crash"
                    ELSE IF r.status_code # 200 THEN "unavailable"
                    ELSE IF error_keys = {} THEN "clean"
                    ELSE IF filename \notin DOMAIN tsv THEN "crash"
                    ELSE "moved"
     IN /\ r = NoResponse <=> ~polled
        /\ last' = Step("status", filename[1], filename[2], outcome,
                        IF outcome = "moved" THEN r ELSE NoResponse)
        /\ batches' = IF outcome = "crash" THEN {} ELSE batches \ {filename}
        /\ IF outcome = "crash" THEN Exit(1)
           ELSE IF outcome = "moved"
           THEN /\ pc' = "write_queued"
                /\ UNCHANGED <<options, exit_code>>
           ELSE api_batch_status_continue

\* with open(output_fasta_file, append_write): the errors of the file and
\* their metadata rows go to the queued pair of its count.
api_batch_status_write_queued ==
  /\ pc = "write_queued"
  /\ LET filename == <<last.count, last.state>>
         fasta_data == get_fasta_data(fasta[filename])
         errors == ErrorSequences(fasta_data, last.response.errors)
     IN /\ fasta' = AppendFasta(fasta, <<last.count, QUEUED>>, errors)
        /\ tsv' = write_metadata(tsv, errors, get_metadata(tsv[filename]),
                                 last.count, QUEUED)
  /\ pc' = "write_job"
  /\ last' = [last EXCEPT !.op = "write_queued"]
  /\ UNCHANGED <<fasta_file, metadata_file, options, batches, exit_code,
                 generated>>

\* with open(filename, 'w'): the other records and their rows are written
\* back to the files of the job, the end of a turn.
api_batch_status_write_job ==
  /\ pc = "write_job"
  /\ LET filename == <<last.count, last.state>>
         fasta_data == get_fasta_data(fasta[filename])
         others == OtherSequences(fasta_data, last.response.errors)
     IN /\ fasta' = Put(fasta, filename, others)
        /\ tsv' = write_metadata(tsv, others, get_metadata(tsv[filename]),
                                 last.count, last.state)
  /\ last' = Step("write_job", last.count, last.state, "", NoResponse)
  /\ UNCHANGED batches
  /\ api_batch_status_continue
  /\ UNCHANGED <<fasta_file, metadata_file, generated>>

\* The process is killed: none of its steps follows.  The run before it
\* was not killed.
Kill ==
  /\ pc # "idle"
  /\ exit_code # KILLED
  /\ \A k \in DOMAIN fasta : Len(fasta[k]) <= MaxFileLen
  /\ \A k \in DOMAIN tsv : Len(tsv[k]) <= MaxFileLen
  /\ Exit(KILLED)
  /\ last' = Step("kill", 0, QUEUED, "", NoResponse)
  /\ UNCHANGED <<fasta_file, metadata_file, fasta, tsv, generated>>

NextKill ==
  \/ \E opts \in KillOptions : Main_Load(opts)
  \/ Main_Reset
  \/ batch_fasta_begin
  \/ batch_fasta_write_metadata
  \/ batch_fasta_write_fasta
  \/ api_batch_job
  \/ \E filename \in batches, r \in UploadResponses \cup {NoResponse} :
        api_virusseq_job_post(filename, r)
  \/ api_virusseq_job_rename_tsv
  \/ api_batch_status_glob
  \/ \E filename \in batches, r \in StatusResponses \cup {NoResponse} :
        api_batch_status_poll(filename, r)
  \/ api_batch_status_write_queued
  \/ api_batch_status_write_job
  \/ Kill

\* Source files with unique identifiers and exactly one metadata row for each.
InitKill ==
  /\ Init
  /\ \A i, j \in 1..Len(fasta_file) : fasta_file[i] = fasta_file[j] => i = j
  /\ \A x \in Range(fasta_file) :
       Cardinality({i \in 1..Len(metadata_file) : metadata_file[i] = x}) = 1

SpecKill == InitKill /\ [][NextKill]_vars

----------------------------------------------------------------------------
\* One invocation on n records with ids 1..n and batch size b, from step 1 of
\* a first run, against a remote that accepts or defers every upload and
\* answers every poll with one page of the submission's records.
MaxPollN == 5
MaxPollB == 3

\* POST answered 200 with a submissionId.
Accepted ==
  [NoResponse EXCEPT !.status_code = 200, !.json = TRUE, !.submissionId = TRUE]

\* POST answered 500 with the structured error body.
Deferred ==
  [NoResponse EXCEPT !.status_code = 500, !.json = TRUE,
                     !.status = "INTERNAL_SERVER_ERROR", !.message = "Denied"]

\* GET uploads?page=0&size=<batch + 1>&sortDirection=ASC
\* &sortField=submitterSampleId&submissionId=<id>, answered 200: the first
\* batch + 1 records of the submission in identifier order, those of
\* upstream_errors with status ERROR.
api_virusseq_status_page(submission, batch, upstream_errors) ==
  LET sorted == SortById(submission)
      size == batch + 1
      page == SubSeq(sorted, 1, IF Len(sorted) < size THEN Len(sorted) ELSE size)
  IN [NoResponse EXCEPT !.status_code = 200, !.json = TRUE,
                        !.errors = upstream_errors \cap Range(page)]

InitPoll ==
  /\ \E n \in 0..MaxPollN, b \in 1..MaxPollB :
        /\ fasta_file = Records(n)
        /\ metadata_file = Records(n)
        /\ options = [NoOptions EXCEPT !.batch = b, !.key_field = TRUE,
                                       !.api = "VirusSeq_Portal", !.api_token = TRUE]
  /\ fasta = NoFiles
  /\ tsv = NoFiles
  /\ pc = "step1"
  /\ batches = {}
  /\ exit_code = 0
  /\ generated = FALSE
  /\ last = Step("reset", 0, QUEUED, "", NoResponse)

NextPoll ==
  \/ Main_Step1
  \/ api_batch_job
  \/ \E filename \in batches, r \in {Accepted, Deferred} :
        api_virusseq_job(filename, r)
  \/ api_batch_status_glob
  \/ \E filename \in batches :
        \E upstream_errors \in SUBSET Range(fasta[filename]) :
           api_batch_status(filename,
              IF filename[2] = QUEUED THEN NoResponse
              ELSE api_virusseq_status_page(fasta[filename], options.batch,
                                            upstream_errors))

SpecPoll == InitPoll /\ [][NextPoll]_vars


----------------------------------------------------------------------------
\* Properties.

Pairs == DOMAIN fasta \cup DOMAIN tsv

FastaIds(k) == IF k \in DOMAIN fasta THEN Range(fasta[k]) ELSE {}

TsvIds(k) == IF k \in DOMAIN tsv THEN Range(tsv[k]) ELSE {}

PairIds(k) == FastaIds(k) \cup TsvIds(k)

\* The input identifiers are unique and each has exactly one metadata row.
InputOK ==
  /\ \A i, j \in 1..Len(fasta_file) : fasta_file[i] = fasta_file[j] => i = j
  /\ \A x \in Range(fasta_file) :
       Cardinality({i \in 1..Len(metadata_file) : metadata_file[i] = x}) = 1

\* Every input identifier has a metadata row.
InputHasRows == Range(fasta_file) \subseteq Range(metadata_file)

\* C1: on an input with unique identifiers and exactly one metadata row for
\* each, once the batch files are generated (and but for the moment between
\* a reset and the regeneration), the batch pairs hold pairwise disjoint
\* identifier sets whose union is the identifier set of the input.
C1_PairsPartitionInput ==
  (InputOK /\ generated /\ pc # "step1") =>
    /\ DOMAIN fasta = DOMAIN tsv
    /\ \A k1, k2 \in Pairs : k1 # k2 => PairIds(k1) \cap PairIds(k2) = {}
    /\ UNION {PairIds(k) : k \in Pairs} = Range(fasta_file)

\* A completed reconciliation has moved a record of a two-record input to a
\* queued pair and left the other one submitted.
C1_Witness ==
  /\ InputOK /\ Len(fasta_file) = 2
  /\ pc = "idle" /\ exit_code = 0
  /\ last.op = "status"
  /\ \E k \in DOMAIN fasta : k[2] = QUEUED /\ fasta[k] # <<>>
  /\ \E k \in DOMAIN fasta : k[2] # QUEUED /\ fasta[k] # <<>>

\* C2 as stated: in every batch pair the fasta file and the tsv file hold
\* the same identifiers, whatever the input.
C2_SameIdsAnyInput ==
  \A k \in Pairs : k \in DOMAIN fasta /\ k \in DOMAIN tsv /\ FastaIds(k) = TsvIds(k)

\* C2, amended: when every input identifier has a metadata row, in every
\* batch pair the fasta file and the tsv file hold the same identifiers.
C2_SameIds ==
  InputHasRows => C2_SameIdsAnyInput

\* A reconciliation has just written the queued pair of its count, which now
\* holds two rows.
C2_Witness ==
  /\ InputHasRows
  /\ last.op = "status" /\ last.outcome = "moved"
  /\ \E k \in DOMAIN tsv :
       k[1] = last.count /\ k[2] = QUEUED /\ Len(tsv[k]) >= 2

\* What C3 says of a reconciliation of the pair filename on errors E.
C3_Moved(filename, E) ==
  LET queued == <<filename[1], QUEUED>>
  IN /\ \A x \in E \cap Range(fasta[filename]) :
          /\ x \in Range(fasta'[queued])
          /\ x \notin Range(fasta'[filename])
          /\ x \notin Range(tsv'[filename])
     /\ \A x \in E \cap Range(tsv[filename]) : x \in Range(tsv'[queued])
     /\ \A x \in Range(fasta[filename]) \ E :
          /\ x \in Range(fasta'[filename])
          /\ x \in Range(tsv[filename]) => x \in Range(tsv'[filename])
          /\ x \notin Range(fasta'[queued])
          /\ x \notin Range(tsv'[queued])

\* C3: when the poll of a submitted pair answers 200 and reports the records
\* E (not empty) as ERROR, the turn of the status loop leaves every record of
\* E that the pair held in the queued pair of the same count (its sequence,
\* and its metadata row if the pair had one) and in neither file of the
\* submitted pair, and leaves every other record of the pair where it was
\* and out of the queued pair.
C3_ErrorsMoveToQueued ==
  [][\A filename \in DOMAIN fasta, r \in StatusResponses :
       (/\ api_batch_status(filename, r)
        /\ filename[2] # QUEUED
        /\ r.status_code = 200
        /\ r.errors # {})
       => C3_Moved(filename, r.errors)]_vars

\* A reconciliation has split a pair: an error went to the queued pair, another
\* record stayed.
C3_Witness ==
  /\ last.op = "status" /\ last.outcome = "moved"
  /\ <<last.count, QUEUED>> \in DOMAIN fasta
  /\ <<last.count, QUEUED>> \in DOMAIN tsv
  /\ fasta[<<last.count, QUEUED>>] # <<>>
  /\ tsv[<<last.count, QUEUED>>] # <<>>
  /\ fasta[<<last.count, last.state>>] # <<>>


\* The fatal answers of C4: a transport error, 401, 404, 200 without a
\* submissionId, 400 BAD_REQUEST 'Headers are incorrect!', 400 FORBIDDEN.
C4_Fatal(r) ==
  \/ r.raised
  \/ r.status_code \in {401, 404}
  \/ r.status_code = 200 /\ r.json /\ ~r.submissionId
  \/ r.status_code = 400 /\ r.json /\ r.status = "BAD_REQUEST"
       /\ r.message = "Headers are incorrect!"
  \/ r.status_code = 400 /\ r.json /\ r.status = "FORBIDDEN"

\* C4: an upload that ends in a fatal answer ends the process with exit
\* status 1 and leaves every batch file as it was (none renamed), and the
\* next thing to happen is the start of another invocation: no upload, poll
\* or reconciliation follows it in the same one.
C4_FatalStopsRun ==
  [][/\ \A filename \in batches, r \in UploadResponses :
          (api_virusseq_job(filename, r) /\ Selected(filename[1]) /\ C4_Fatal(r))
          => (pc' = "idle" /\ exit_code' = 1 /\ fasta' = fasta /\ tsv' = tsv)
     /\ (last.op = "upload" /\ C4_Fatal(last.response)) => last'.op = "load"]_vars

\* A run stopped by a 401 while two queued batches were there.
C4_Witness ==
  /\ pc = "idle" /\ exit_code = 1
  /\ last.op = "upload" /\ last.response.status_code = 401
  /\ Cardinality({k \in DOMAIN fasta : k[2] = QUEUED}) >= 2

\* The recoverable answers of C5, with the structured error body.
C5_Recoverable(r) ==
  /\ ~r.raised /\ r.json
  /\ \/ r.status_code = 400 /\ r.status = "BAD_REQUEST"
          /\ r.message = "Found records with invalid fields"
     \/ r.status_code = 500

\* C5: an upload answered 400 BAD_REQUEST 'Found records with invalid
\* fields' or 500 leaves both files of the pair queued and every batch file
\* unchanged, the process goes on, and when queued batches remain the next
\* step is the upload of another one.
C5_RecoverableContinues ==
  [][/\ \A filename \in batches, r \in UploadResponses :
          (api_virusseq_job(filename, r) /\ Selected(filename[1]) /\ C5_Recoverable(r))
          => /\ fasta' = fasta /\ tsv' = tsv
             /\ filename \in DOMAIN fasta' /\ filename \in DOMAIN tsv'
             /\ filename[2] = QUEUED
             /\ batches' = batches \ {filename}
             /\ pc' = (IF batches' = {} THEN "step3" ELSE "upload")
             /\ exit_code' = exit_code
     /\ (last.op = "upload" /\ C5_Recoverable(last.response) /\ pc = "upload")
          => (last'.op = "upload" /\ last'.count # last.count)]_vars

\* An 'invalid fields' answer, the pair still queued, another batch to upload.
C5_Witness ==
  /\ last.op = "upload" /\ last.response.status_code = 400
  /\ last.response.message = "Found records with invalid fields"
  /\ pc = "upload"
  /\ <<last.count, QUEUED>> \in DOMAIN fasta
  /\ \E k \in batches : Selected(k[1])

\* C6: an upload answered 200 with a submissionId renames both files of the
\* pair to that identifier, a name no file had; the count and the content
\* of both files are kept and every other batch file is left as it was.
C6_AcceptedPairRenamed ==
  [][\A filename \in batches, r \in UploadResponses :
       (/\ api_virusseq_job(filename, r)
        /\ Selected(filename[1])
        /\ r.status_code = 200 /\ r.json /\ r.submissionId)
       => LET new == <<filename[1], last'.state>>
          IN /\ last'.state # QUEUED
             /\ new \notin DOMAIN fasta /\ new \notin DOMAIN tsv
             /\ DOMAIN fasta' = (DOMAIN fasta \ {filename}) \cup {new}
             /\ DOMAIN tsv' = (DOMAIN tsv \ {filename}) \cup {new}
             /\ fasta'[new] = fasta[filename]
             /\ tsv'[new] = tsv[filename]
             /\ \A k \in DOMAIN fasta \ {filename} :
                  fasta'[k] = fasta[k] /\ tsv'[k] = tsv[k]]_vars

\* A pair with records has just been accepted, next to other pairs.
C6_Witness ==
  /\ last.op = "upload" /\ last.outcome = "submitted"
  /\ fasta[<<last.count, last.state>>] # <<>>
  /\ tsv[<<last.count, last.state>>] # <<>>
  /\ Cardinality(DOMAIN fasta) >= 3

\* C7: once the batch files have been generated, step 1 of an invocation
\* without reset finds a fasta file of count 0, skips the generation, and
\* creates and changes no batch file.
C7_PartitionSkipped ==
  [][(pc = "step1" /\ generated /\ ~options.reset)
       => /\ \E k \in DOMAIN fasta : k[1] = 0
          /\ last'.op = "skip"
          /\ fasta' = fasta /\ tsv' = tsv]_vars

\* Step 1 has been skipped in a namespace where count 0 is submitted only.
C7_Witness ==
  /\ last.op = "skip" /\ ~options.reset
  /\ <<0, QUEUED>> \notin DOMAIN fasta
  /\ \E k \in DOMAIN fasta : k[1] = 0 /\ k[2] # QUEUED
  /\ \E k \in DOMAIN fasta : k[1] # 0 /\ k[2] = QUEUED

\* The batch files of a namespace that holds queued pairs only, counts 0..K-1.
RECURSIVE QueuedFrom(_, _)
QueuedFrom(count, K) ==
  IF count >= K THEN <<>> ELSE fasta[<<count, QUEUED>>] \o QueuedFrom(count + 1, K)

\* C8 as stated: after batch_fasta no batch holds more than options.batch
\* records.
C8_AtMostBatchSize ==
  (pc = "step2" /\ last.op = "generate") =>
    \A k \in DOMAIN fasta : Len(fasta[k]) <= options.batch

\* ceil(n / b)
CeilDiv(n, b) == (n + b - 1) \div b

\* C9 as stated: after batch_fasta on n records with batch size b the
\* batches, in count order, hold the records in identifier order, every
\* batch but the last b of them and the last the remainder; 2500 records
\* with batch size 1000 give sizes 1000, 1000, 500 and 500 records give one
\* batch of 500.
C9_FilledInOrder ==
  (pc = "step2" /\ last.op = "generate") =>
    LET n == Len(fasta_file)
        b == options.batch
        K == IF n = 0 THEN 1 ELSE CeilDiv(n, b)
    IN /\ DOMAIN fasta = {<<count, QUEUED>> : count \in 0..(K - 1)}
       /\ \A count \in 0..(K - 2) : Len(fasta[<<count, QUEUED>>]) = b
       /\ Len(fasta[<<K - 1, QUEUED>>]) = n - (K - 1) * b
       /\ QueuedFrom(0, K) = fasta_file
       /\ (n = 2500 /\ b = 1000) =>
            [count \in 0..(K - 1) |-> Len(fasta[<<count, QUEUED>>])]
              = [count \in 0..2 |-> IF count < 2 THEN 1000 ELSE 500]
       /\ (n = 500 /\ b = 1000) => (K = 1 /\ Len(fasta[<<0, QUEUED>>]) = 500)

\* The namespace holds what batch_fasta makes of the source files and
\* nothing else: queued pairs of counts 0..K-1 whose fasta files are, in
\* count order, the sorted source records, each tsv file the metadata rows
\* of its fasta file's records.
C10_OnlyRegenerated ==
  LET K == Cardinality(DOMAIN fasta)
  IN /\ K >= 1
     /\ DOMAIN fasta = {<<count, QUEUED>> : count \in 0..(K - 1)}
     /\ DOMAIN tsv = DOMAIN fasta
     /\ QueuedFrom(0, K) = fasta_file
     /\ \A i, j \in 1..Len(fasta_file) : i <= j => fasta_file[i] <= fasta_file[j]
     /\ \A k \in DOMAIN fasta :
          tsv[k] = SelectSeq(metadata_file, LAMBDA row : row \in Range(fasta[k]))

\* C10: with the reset flag, the reset step removes every batch file, step 1
\* then generates the batch files, and at the end of step 1 the namespace
\* holds only the queued pairs made from the source files.
C10_ResetRegenerates ==
  /\ [][(pc = "reset" /\ options.reset)
          => (fasta' = NoFiles /\ tsv' = NoFiles /\ pc' = "step1")]_vars
  /\ [][(pc = "step1" /\ options.reset) => last'.op = "generate"]_vars
  /\ [](pc = "step2" /\ options.reset => C10_OnlyRegenerated)

\* The batch files have been generated again after a reset that removed files.
C10_Witness ==
  /\ pc = "step2" /\ options.reset
  /\ last.op = "generate" /\ last.outcome = "after removal"
  /\ Len(fasta_file) >= 2

\* Every input identifier is in exactly one batch pair, once in its fasta
\* file and once in its tsv file, and the pairs hold nothing else.
C11_ExactlyOnce ==
  /\ DOMAIN fasta = DOMAIN tsv
  /\ \A x \in Range(fasta_file) :
       /\ Cardinality({<<k, i>> \in UNION {{k} \X (1..Len(fasta[k])) : k \in DOMAIN fasta} :
                          fasta[k][i] = x}) = 1
       /\ Cardinality({<<k, i>> \in UNION {{k} \X (1..Len(tsv[k])) : k \in DOMAIN tsv} :
                          tsv[k][i] = x}) = 1
       /\ \A k \in Pairs : x \in FastaIds(k) <=> x \in TsvIds(k)
  /\ \A k \in Pairs : PairIds(k) \subseteq Range(fasta_file)

\* C11 as stated: when an invocation has been killed between two of its file
\* operations, the next invocation (without reset, not killed itself), on
\* source files with unique identifiers and one metadata row each, ends with
\* every input identifier in exactly one batch pair, nothing lost and nothing
\* duplicated.
C11_ReentrySafe ==
  [][(exit_code = KILLED /\ pc # "idle" /\ pc' = "idle" /\ last'.op # "kill")
       => C11_ExactlyOnce']_vars

\* A pair whose fasta file carries a submissionId while its tsv file is
\* still queued: what a kill between the two os.rename calls leaves.
C12_Inconsistent ==
  \E k \in DOMAIN fasta :
    /\ k[2] # QUEUED
    /\ k \notin DOMAIN tsv
    /\ <<k[1], QUEUED>> \in DOMAIN tsv
    /\ <<k[1], QUEUED>> \notin DOMAIN fasta

\* C12 as stated: the invocation (with an API selected) that follows a kill
\* between the two renames of an accepted pair takes no upload and no poll,
\* and ends with a non-zero exit status.
C12_InconsistentPairDetected ==
  [][(C12_Inconsistent /\ exit_code = KILLED /\ pc # "idle" /\ options.api # ""
        /\ last'.op # "kill")
       => /\ last'.op \notin {"upload", "status"}
          /\ pc' = "idle" => exit_code' \notin {0, KILLED}]_vars

\* C13 as stated: the upload loop takes the queued batch of lowest count
\* among those it has still to upload, and the status loop polls the
\* submitted batch of lowest count among those it has still to poll.
C13_AscendingOrder ==
  [][/\ \A filename \in batches, r \in UploadResponses :
          (api_virusseq_job(filename, r) /\ Selected(filename[1]))
          => \A k \in batches : Selected(k[1]) => filename[1] <= k[1]
     /\ \A filename \in batches, r \in StatusResponses :
          (api_batch_status(filename, r) /\ Selected(filename[1])
             /\ filename[2] # QUEUED)
          => \A k \in batches :
               (Selected(k[1]) /\ k[2] # QUEUED) => filename[1] <= k[1]]_vars

\* No file of a pair whose count is not i is created, removed or changed.
C14_OthersUntouched(i) ==
  \A k \in DOMAIN fasta \cup DOMAIN tsv \cup DOMAIN fasta' \cup DOMAIN tsv' :
    k[1] # i =>
      /\ k \in DOMAIN fasta /\ k \in DOMAIN fasta' /\ fasta'[k] = fasta[k]
      /\ k \in DOMAIN tsv /\ k \in DOMAIN tsv' /\ tsv'[k] = tsv[k]

\* C14: in an invocation with -n i, a turn of the upload loop on a pair of
\* another count sends no request and a turn of the status loop on one sends
\* no poll, and no turn of either loop creates, renames or writes a file of
\* a pair of another count.
C14_OnlyBatchNumber ==
  [][options.batch_number # NoNumber =>
       /\ \A filename \in batches, r \in UploadResponses \cup {NoResponse} :
            api_virusseq_job(filename, r)
            => /\ C14_OthersUntouched(options.batch_number)
               /\ filename[1] # options.batch_number
                    => (r = NoResponse /\ last'.outcome = "skipped")
       /\ \A filename \in batches, r \in StatusResponses \cup {NoResponse} :
            api_batch_status(filename, r)
            => /\ C14_OthersUntouched(options.batch_number)
               /\ filename[1] # options.batch_number
                    => (r = NoResponse /\ last'.outcome = "skipped")]_vars

\* With -n 0 the reconciler has moved errors of batch 0 and has a pair of
\* count 1 still to visit.
C14_Witness ==
  /\ options.batch_number = 0
  /\ pc = "status" /\ last.op = "status" /\ last.outcome = "moved"
  /\ last.count = 0
  /\ \E k \in batches : k[1] = 1 /\ k[2] # QUEUED

\* C15: the start of an invocation whose key column is not a column of the
\* metadata file, with or without -r, ends the process with exit status 1
\* at once: no batch file and no source file is created, removed, renamed or
\* written, and no step of the program (so no request) follows.
C15_KeyColumnChecked ==
  [][\A opts \in Options :
       (Main_Load(opts) /\ ~opts.key_field)
       => /\ pc' = "idle" /\ exit_code' = 1
          /\ fasta' = fasta /\ tsv' = tsv
          /\ fasta_file' = fasta_file /\ metadata_file' = metadata_file]_vars

\* An invocation has just failed on its key column in a namespace that
\* holds a queued and a submitted pair.
C15_Witness ==
  /\ last.op = "load" /\ last.outcome = "exit"
  /\ pc = "idle" /\ exit_code = 1
  /\ \E k \in DOMAIN fasta : k[2] = QUEUED
  /\ \E k \in DOMAIN fasta : k[2] # QUEUED

\* C16 as stated: an upload answered with a status other than 200, 400, 401,
\* 404 and 500, whatever its body, leaves the pair queued and every file
\* unchanged, and the loop goes on: the process does not end.
C16_OtherStatusContinues ==
  [][\A filename \in batches, r \in UploadResponses :
       (/\ api_virusseq_job(filename, r)
        /\ Selected(filename[1])
        /\ ~r.raised
        /\ r.status_code \notin {200, 400, 401, 404, 500})
       => /\ fasta' = fasta /\ tsv' = tsv
          /\ filename \in DOMAIN fasta' /\ filename[2] = QUEUED
          /\ exit_code' = exit_code
          /\ pc' = (IF batches \ {filename} = {} THEN "step3" ELSE "upload")]_vars

\* C17: but for the removal of a reset, no step makes a pair disappear: a
\* pair that exists exists after the step under the same name, or it was
\* queued, the step is its accepted upload, and it exists under a new name
\* of the same count and the submissionId; so a submitted pair keeps its
\* name whatever is written to it.
C17_PairsPersist ==
  [][~(pc = "reset" /\ options.reset) =>
       \A k \in DOMAIN fasta \cup DOMAIN tsv :
         \/ k \in DOMAIN fasta' /\ k \in DOMAIN tsv'
         \/ /\ k[2] = QUEUED
            /\ last'.op = "upload" /\ last'.outcome = "submitted"
            /\ last'.count = k[1] /\ last'.state # QUEUED
            /\ <<k[1], last'.state>> \in DOMAIN fasta' \ DOMAIN fasta
            /\ <<k[1], last'.state>> \in DOMAIN tsv' \ DOMAIN tsv]_vars

\* A reconciliation has moved every record of a submitted pair to the queued
\* pair of its count: the submitted pair is there, empty.
C17_Witness ==
  /\ last.op = "status" /\ last.outcome = "moved"
  /\ last.state # QUEUED
  /\ fasta[<<last.count, last.state>>] = <<>>
  /\ tsv[<<last.count, last.state>>] = <<>>
  /\ fasta[<<last.count, QUEUED>>] # <<>>

\* C18: the status loop starts only when the upload loop has visited every
\* queued file it found, and from then on the invocation takes no upload
\* step: every upload follows the glob of step 2 or another upload.
C18_SubmitBeforeReconcile ==
  [][/\ last'.op = "status_glob" => (pc = "step3" /\ batches = {})
     /\ pc \in {"step3", "status"} => pc' \in {"status", "idle"}
     /\ (last'.op = "upload" /\ pc # "idle") => last.op \in {"job", "upload"}]_vars

\* A queued pair made by the reconciler has been accepted in a later
\* invocation: another pair of its count had been submitted before.
C18_Witness ==
  /\ last.op = "upload" /\ last.outcome = "submitted"
  /\ fasta[<<last.count, last.state>>] # <<>>
  /\ \E k \in DOMAIN fasta : k[1] = last.count /\ k[2] \notin {QUEUED, last.state}

IsPrefix(s, t) == Len(s) <= Len(t) /\ SubSeq(t, 1, Len(s)) = s

\* C19: a turn of the status loop leaves the queued pair of the file's
\* count, when that pair exists, with the records and the rows it had, in
\* their order, followed by what the turn adds.
C19_QueuedPairKept ==
  [][\A filename \in batches, r \in StatusResponses :
       api_batch_status(filename, r)
       => LET queued == <<filename[1], QUEUED>>
          IN /\ queued \in DOMAIN fasta
                  => (queued \in DOMAIN fasta' /\ IsPrefix(fasta[queued], fasta'[queued]))
             /\ queued \in DOMAIN tsv
                  => (queued \in DOMAIN tsv' /\ IsPrefix(tsv[queued], tsv'[queued]))]_vars

\* A queued pair holds the errors of two reconciliations: its records are
\* not in identifier order, as those of a single write are.
C19_Witness ==
  /\ last.op = "status" /\ last.outcome = "moved"
  /\ LET queued == <<last.count, QUEUED>>
     IN /\ Len(fasta[queued]) >= 2 /\ fasta[queued][1] > fasta[queued][2]
        /\ Len(tsv[queued]) >= 2

IsSorted(s) == \A i, j \in 1..Len(s) : i <= j => s[i] <= s[j]

\* C21 as stated: the metadata table get_metadata returns is in ascending
\* order of the key column, so after batch_fasta the source metadata file it
\* has rewritten and every batch tsv file it has written are in that order.
C21_MetadataSorted ==
  (pc = "step2" /\ last.op = "generate") =>
    /\ IsSorted(metadata_file)
    /\ \A k \in DOMAIN tsv : IsSorted(tsv[k])

\* The records of the pairs of the count of filename: on a source file with
\* unique identifiers, those the submission of filename can have held.
HeldBy(filename) ==
  UNION {Range(fasta[k]) : k \in {j \in DOMAIN fasta : j[1] = filename[1]}}

\* C23 as stated: a turn of the status loop that creates a queued pair puts
\* a record in it, whatever records of the submission the poll reports as
\* ERROR, also those moved out of the pair by an earlier turn; so the loop
\* leaves no new queued pair without records.
C23_NoEmptyQueuedPair ==
  [][\A filename \in batches, r \in StatusResponses :
       (/\ api_batch_status(filename, r)
        /\ InputOK
        /\ r.errors \subseteq HeldBy(filename))
       => \A k \in DOMAIN fasta' \ DOMAIN fasta : fasta'[k] # <<>>]_vars

\* The answer to the poll of filename once every record has been accepted
\* under its newest submission: no record the pair holds is ERROR; the
\* records reported ERROR are records the submission held and that have
\* since been moved to another pair of its count.
C24_Settled(filename, r) ==
  /\ r.status_code = 200
  /\ r.errors \cap Range(fasta[filename]) = {}
  /\ r.errors \subseteq HeldBy(filename)

\* C24 as stated, its second half: once every record has been accepted
\* under its newest submission and the namespace holds no queued pair, it
\* holds none after any later step of the status loop.
C24_StaysQuiescent ==
  [][\A filename \in batches, r \in StatusResponses :
       (/\ api_batch_status(filename, r)
        /\ InputOK
        /\ filename[2] # QUEUED
        /\ QueuedGlob(fasta) = {}
        /\ C24_Settled(filename, r))
       => QueuedGlob(fasta') = {}]_vars

\* C22 as stated: for every submitted batch the page size of the poll,
\* options.batch + 1, is at least the number of records of the batch, so
\* that whatever records of the batch are ERROR upstream, the turn of the
\* status loop moves each of them to the queued pair of the batch's count.
C22_PageCoversBatch ==
  [][\A filename \in batches :
       \A upstream_errors \in SUBSET Range(fasta[filename]) :
         (/\ filename[2] # QUEUED
          /\ api_batch_status(filename,
               api_virusseq_status_page(fasta[filename], options.batch,
                                        upstream_errors)))
         => /\ Len(fasta[filename]) <= options.batch + 1
            /\ \A x \in upstream_errors :
                 /\ x \notin Range(fasta'[filename])
                 /\ <<filename[1], QUEUED>> \in DOMAIN fasta'
                 /\ x \in Range(fasta'[<<filename[1], QUEUED>>])]_vars

\* The answers the polls of the submitted files of f can get.
C25_Answers(f) ==
  [{k \in DOMAIN f : k[2] # QUEUED} -> {r \in StatusResponses : ~r.raised}]

\* The submitted files of f: those the status loop polls (a turn on a queued
\* file does nothing).
C25_Submitted(f) == {k \in DOMAIN f : k[2] # QUEUED}

\* C25: on the files the status loop can find when it starts, the loop run
\* twice on the same answers leaves every file as the first run left it.
C25_ReconcileIdempotent ==
  pc = "step3" =>
    \A answers \in C25_Answers(fasta) :
      \A order1 \in SortedGlobs(C25_Submitted(fasta)) :
        LET once == api_batch_status_loop(fasta, tsv, order1, answers)
        IN \A order2 \in SortedGlobs(C25_Submitted(once[1])) :
             api_batch_status_loop(once[1], once[2], order2, answers) = once

\* The status loop starts on a queued pair with records and a submitted pair
\* of the same count, and has answers on which it adds records to that
\* queued pair.
C25_Witness ==
  /\ pc = "step3"
  /\ \E answers \in C25_Answers(fasta) :
       \E order1 \in SortedGlobs(C25_Submitted(fasta)) :
         LET once == api_batch_status_loop(fasta, tsv, order1, answers)
         IN \E k \in QueuedGlob(fasta) :
              /\ fasta[k] # <<>>
              /\ Len(once[1][k]) > Len(fasta[k])
              /\ Len(once[2][k]) > Len(tsv[k])

\* C26: every upload is of a file that exists with the state tag queued; a
\* turn of the upload loop takes its file off the list of the invocation,
\* to which nothing is added; and a file that carries a submissionId keeps
\* it as long as it exists, so it is in the list of no later invocation.
C26_UploadedOnce ==
  [][/\ \A filename \in batches, r \in UploadResponses :
          api_virusseq_job(filename, r)
          => /\ filename[2] = QUEUED
             /\ filename \in DOMAIN fasta /\ filename \in DOMAIN tsv
             /\ pc' = "upload" => batches' = batches \ {filename}
     /\ (pc = "upload" /\ pc' = "upload")
          => (batches' \subseteq batches /\ batches' # batches)
     /\ pc = "step2" => batches' \subseteq QueuedGlob(fasta)
     /\ \A k \in DOMAIN fasta :
          (k[2] # QUEUED /\ ~(pc = "reset" /\ options.reset)) => k \in DOMAIN fasta']_vars

\* An upload has been answered, deferred, in a namespace that holds an
\* accepted pair, with queued files still to upload.
C26_Witness ==
  /\ last.op = "upload" /\ last.outcome = "continue"
  /\ last.response # NoResponse
  /\ pc = "upload"
  /\ \E k \in DOMAIN fasta : k[2] # QUEUED /\ fasta[k] # <<>>

\* C27: a turn of the status loop on a submitted file whose poll is answered
\* with a status other than 200, or with 200 and no record in status ERROR,
\* leaves every batch file as it was and creates none, and the loop goes on
\* to the next file (the process ends with exit status 0 after the last).
C27_NothingWritten ==
  [][\A filename \in batches, r \in StatusResponses :
       (/\ api_batch_status(filename, r)
        /\ Selected(filename[1]) /\ filename[2] # QUEUED
        /\ ~r.raised
        /\ (r.status_code # 200 \/ r.errors = {}))
       => /\ fasta' = fasta /\ tsv' = tsv
          /\ IF batches \ {filename} = {}
             THEN pc' = "idle" /\ exit_code' = 0
             ELSE pc' = "status" /\ batches' = batches \ {filename}]_vars

\* The poll of a submitted pair with records has reported no error: the pair
\* is as it was, no queued pair of its count exists, and the loop has files
\* left.
C27_Witness ==
  /\ last.op = "status" /\ last.outcome \in {"clean", "unavailable"}
  /\ pc = "status"
  /\ fasta[<<last.count, last.state>>] # <<>>
  /\ <<last.count, QUEUED>> \notin DOMAIN fasta

====
